---- MODULE Spec2Model ----
(***************************************************************************)
(* StoryMaker (src/storymaker.py): a chat bot that records photo events in *)
(* a pending-media registry, turns text events into panels and assembles   *)
(* the panel list into a story document.                                   *)
(*                                                                         *)
(* Python strings are sequences of one-character strings ("" is << >>).    *)
(* Optional[x] is a sequence of length 0 (None) or 1 (<<x>>).              *)
(* A dict is a function whose DOMAIN is the set of its keys.               *)
(***************************************************************************)
EXTENDS Integers, Sequences, FiniteSets, TLC

VARIABLES
    last_media_by_user,  \* dict (chat_id, user_id) -> {"ts", "file_id"}
    panels,              \* list of Panel
    panels_jsonl,        \* records appended to out/panels.jsonl
    story_json,          \* Optional: document in out/captured_story.json
    now,                 \* time.time(), in seconds
    handled,             \* history: the updates handled so far, in order
    text_in,             \* parser harness: the text handed to the parser
    parsed               \* parser harness: Optional result of the parser

vars == <<last_media_by_user, panels, panels_jsonl, story_json, now,
          handled, text_in, parsed>>

(***************************************************************************)
(* Bounds                                                                  *)
(***************************************************************************)
MaxLen == 3       \* longest generated raw text handed to the parser
MaxPanels == 2    \* longest generated panel list handed to assemble_story
MaxEvents == 3    \* updates handled in one run
MaxTime == 30     \* last clock value

(***************************************************************************)
(* Configuration, src/storymaker.py:13-16                                  *)
(***************************************************************************)
PANEL_GAP_SEC == 25
STORY_ID ==
    <<"c", "a", "p", "t", "u", "r", "e", "d", "_", "s", "t", "o", "r", "y">>
STORY_TITLE == "Captured Story"

None == << >>
Some(x) == <<x>>
\* Python truthiness of an Optional[str]: neither None nor "".
Truthy(o) == o # << >> /\ o[1] # << >>

(***************************************************************************)
(* str methods                                                             *)
(***************************************************************************)
\* A character that has no escape in a string literal is written by its
\* Python escape: "\\x0b" is the one character U+000B.
\* The characters str.strip() removes (those with str.isspace()).
Whitespace ==
    {"\t", "\n", "\\x0b", "\f", "\r", "\\x1c", "\\x1d", "\\x1e", "\\x1f", " ",
     "\\x85", "\\xa0", "\\u1680", "\\u2000", "\\u2001", "\\u2002", "\\u2003",
     "\\u2004", "\\u2005", "\\u2006", "\\u2007", "\\u2008", "\\u2009",
     "\\u200a", "\\u2028", "\\u2029", "\\u202f", "\\u205f", "\\u3000"}

\* The line boundaries of str.splitlines(); "\r\n" is one boundary.
LineBreaks ==
    {"\n", "\\x0b", "\f", "\r", "\\x1c", "\\x1d", "\\x1e", "\\x85",
     "\\u2028", "\\u2029"}

IsSpace(c) == c \in Whitespace

RECURSIVE lstrip(_)
lstrip(s) == IF s # << >> /\ IsSpace(Head(s)) THEN lstrip(Tail(s)) ELSE s

RECURSIVE rstrip(_)
rstrip(s) ==
    IF s # << >> /\ IsSpace(s[Len(s)]) THEN rstrip(SubSeq(s, 1, Len(s) - 1))
    ELSE s

strip(s) == lstrip(rstrip(s))

\* str.splitlines(): a line ends at a line boundary, which is not part of the
\* line; there is no empty last line.
RECURSIVE splitlines(_)
splitlines(s) ==
    IF s = << >> THEN << >>
    ELSE LET brk == {i \in 1..Len(s) : s[i] \in LineBreaks} IN
         IF brk = {} THEN <<s>>
         ELSE LET i == CHOOSE j \in brk : \A k \in brk : j <= k
                  crlf == s[i] = "\r" /\ i < Len(s) /\ s[i + 1] = "\n"
                  next == IF crlf THEN i + 2 ELSE i + 1
              IN <<SubSeq(s, 1, i - 1)>> \o splitlines(SubSeq(s, next, Len(s)))

(***************************************************************************)
(* extract_speaker_and_body, src/storymaker.py:53-62                       *)
(* Line 55 evaluates `lines.strip()` on the list `lines` as soon as the    *)
(* list is non-empty; a list has no attribute strip, so the call raises    *)
(* AttributeError.  Lines 59-62 are never reached.                         *)
(***************************************************************************)
Raise(e) == [exc |-> e, speaker |-> None, body |-> << >>]
Return(speaker, body) == [exc |-> "", speaker |-> speaker, body |-> body]

extract_speaker_and_body(text) ==
    LET lines == splitlines(IF text = None THEN << >> ELSE text[1]) IN
    IF lines # << >> THEN Raise("AttributeError")   \* line 55
    ELSE Return(None, << >>)                          \* line 58

(***************************************************************************)
(* dict operations                                                         *)
(***************************************************************************)
EmptyDict == << >>
\* Put that keeps the value of a key the dict already has
Put_keep(d, k, v) ==
    [x \in (DOMAIN d) \cup {k} |-> IF x \in DOMAIN d THEN d[x] ELSE v]

\* Put that rebinds the dict to the one new item
Put_only(d, k, v) == [x \in {k} |-> v]

Put(d, k, v) == [x \in (DOMAIN d) \cup {k} |-> IF x = k THEN v ELSE d[x]]
Pop(d, k) == [x \in (DOMAIN d) \ {k} |-> d[x]]

(***************************************************************************)
(* Format spec `04d`: decimal digits, zero-padded on the left to width 4.  *)
(***************************************************************************)
DigitChar == <<"0", "1", "2", "3", "4", "5", "6", "7", "8", "9">>

RECURSIVE Decimal(_)
Decimal(i) ==
    IF i < 10 THEN <<DigitChar[i + 1]>>
    ELSE Decimal(i \div 10) \o <<DigitChar[(i % 10) + 1]>>

RECURSIVE ZeroPad(_, _)
ZeroPad(s, width) == IF Len(s) >= width THEN s ELSE ZeroPad(<<"0">> \o s, width)

Fmt04d(i) == ZeroPad(Decimal(i), 4)

(***************************************************************************)
(* assemble_story, src/storymaker.py:86-111                                *)
(***************************************************************************)
\* f"node_{i:04d}", line 90
node_id(i) == <<"n", "o", "d", "e", "_">> \o Fmt04d(i)

\* f"{STORY_ID}:goto:{i:04d}", lines 95 and 101
goto_key(i) == STORY_ID \o <<":", "g", "o", "t", "o", ":">> \o Fmt04d(i)

\* line 91
node_text(p) ==
    IF Truthy(p.speaker)
    THEN strip(p.speaker[1] \o <<"\n", "\n">> \o p.text)
    ELSE p.text

\* node_choices with the bound of line 95 off by one (`i <= len(panels)`)
node_choices_last(i, n) ==
    IF i <= n THEN <<[label |-> "Continue", key |-> goto_key(i + 1)]>>
    ELSE << >>

\* line 95
node_choices(i, n) ==
    IF i < n THEN <<[label |-> "Continue", key |-> goto_key(i + 1)]>>
    ELSE << >>

\* lines 92-98; a node without the "photo" key has photo = None
make_node(p, i, n) ==
    [text |-> node_text(p),
     type |-> "choice",
     choices |-> node_choices(i, n),
     photo |-> IF Truthy(p.photo_url) THEN p.photo_url ELSE None]

\* register_callback that files the node under the key of its successor
register_callback_next(callbacks, prev_id, i, nid) ==
    IF Truthy(prev_id) THEN Put(callbacks, goto_key(i + 1), nid) ELSE callbacks

\* lines 100-101
register_callback(callbacks, prev_id, i, nid) ==
    IF Truthy(prev_id) THEN Put(callbacks, goto_key(i), nid) ELSE callbacks

\* the loop of lines 89-102, from position i on
RECURSIVE assemble_loop(_, _, _)
assemble_loop(ps, i, st) ==
    IF i > Len(ps) THEN st
    ELSE LET nid == node_id(i) IN
         assemble_loop(ps, i + 1,
             [nodes |-> Put(st.nodes, nid, make_node(ps[i], i, Len(ps))),
              callbacks |-> register_callback(st.callbacks, st.prev_id, i, nid),
              prev_id |-> Some(nid)])

\* line 104
meta_intro(nodes) ==
    IF DOMAIN nodes # {} THEN <<"n", "o", "d", "e", "_", "0", "0", "0", "1">>
    ELSE << >>

\* the StoryBundle of lines 103-107, which is also the document of line 110
assemble_story(ps) ==
    LET st == assemble_loop(ps, 1,
                  [nodes |-> EmptyDict, callbacks |-> EmptyDict,
                   prev_id |-> None]) IN
    [meta |-> [title |-> STORY_TITLE, intro |-> meta_intro(st.nodes)],
     nodes |-> st.nodes,
     callbacks |-> st.callbacks]

(***************************************************************************)
(* Inputs                                                                  *)
(***************************************************************************)
F1 == <<"f", "1">>
F2 == <<"f", "2">>

\* chat and sender of a message; from_user is None for a channel post
Heads ==
    {[chat_id |-> 1, from_user |-> Some(5)],
     [chat_id |-> 2, from_user |-> None]}

\* m.photo: the sizes of one photo, smallest first
PhotoLists == {<< >>, <<F1>>, <<F1, F2>>}

\* (m.text, m.caption)
TextPairs ==
    {<<None, None>>, <<Some(<<"a">>), None>>, <<Some(<< >>), Some(<<"c">>)>>}

Messages ==
    {[chat_id |-> h.chat_id, from_user |-> h.from_user, photo |-> ph,
      text |-> tc[1], caption |-> tc[2]] :
        h \in Heads, ph \in PhotoLists, tc \in TextPairs}

PhotoUpdates == {None} \cup {Some(m) : m \in {x \in Messages : x.text = None}}
TextUpdates == {None} \cup {Some(m) : m \in {x \in Messages : x.photo = << >>}}

TickSteps == {10, 25}

\* `m.from_user.id if m.from_user else 0`, lines 122 and 133
user_id_of(m) == IF m.from_user # None THEN m.from_user[1] ELSE 0

\* `m.text or m.caption or ""`, line 134
raw_of(m) ==
    IF Truthy(m.text) THEN m.text[1]
    ELSE IF Truthy(m.caption) THEN m.caption[1]
    ELSE << >>

\* secure_url returned by the upload of the bytes of file_id, lines 70-79
secure_url(file_id) == <<"u", "/">> \o file_id

\* What the asset path of lines 142-143 would do for an update: the download
\* fails, the download succeeds and the upload fails, or both succeed.
Resolver == {"fetch_error", "upload_error", "ok"}

\* content: the message of the update has a photo (photo event), or a text
\* or caption (text event)
Event(kind, chat_id, user_id, outcome, file_id, lm, resolver, content) ==
    [kind |-> kind, chat_id |-> chat_id, user_id |-> user_id, t |-> now,
     outcome |-> outcome, file_id |-> file_id, lm |-> lm,
     resolver |-> resolver, content |-> content]

has_photo(u) == u # None /\ u[1].photo # << >>
has_text(u) == u # None /\ (Truthy(u[1].text) \/ Truthy(u[1].caption))

(***************************************************************************)
(* State after import, lines 49-50; out/ holds no file yet                 *)
(***************************************************************************)
Init ==
    /\ last_media_by_user = EmptyDict
    /\ panels = << >>
    /\ panels_jsonl = << >>
    /\ story_json = None
    /\ now = 0
    /\ handled = << >>
    /\ text_in = None
    /\ parsed = None

\* time passes between the updates of a run
Tick ==
    /\ Len(handled) < MaxEvents
    /\ \E d \in TickSteps : now + d <= MaxTime /\ now' = now + d
    /\ UNCHANGED <<last_media_by_user, panels, panels_jsonl, story_json,
                   handled, text_in, parsed>>

(***************************************************************************)
(* on_photo, src/storymaker.py:117-126                                     *)
(***************************************************************************)
on_photo(u) ==
    /\ Len(handled) < MaxEvents
    /\ IF u = None \/ u[1].photo = << >>
       THEN /\ handled' = Append(handled,
                   Event("photo", 0, 0, "ignored", None, None, "ok",
                         has_photo(u)))
            /\ UNCHANGED last_media_by_user
       ELSE LET m == u[1]
                chat_id == m.chat_id
                uid == user_id_of(m)
                file_id == m.photo[Len(m.photo)]
            IN /\ last_media_by_user' =
                      Put(last_media_by_user, <<chat_id, uid>>,
                          [ts |-> now, file_id |-> file_id])
               /\ handled' = Append(handled,
                      Event("photo", chat_id, uid, "recorded", Some(file_id),
                            None, "ok", has_photo(u)))
    /\ UNCHANGED <<panels, panels_jsonl, story_json, now, text_in, parsed>>

OnPhoto == \E u \in PhotoUpdates : on_photo(u)

(***************************************************************************)
(* on_text, src/storymaker.py:128-162                                      *)
(* Updates are processed one at a time (the Application of line 175 is     *)
(* built without concurrent updates), so a handler runs to its end before  *)
(* the next update is handled.  raw is non-empty past line 131, so it has  *)
(* a line and the parser call of line 135 raises for every such update;    *)
(* the exception leaves the handler.  Lines 137-162 follow in the last     *)
(* branch: resolver says how the download of line 142 and the upload of    *)
(* line 143 would end.                                                     *)
(***************************************************************************)
\* no_content without the test of text and caption
no_content_none_only(u) == u = None

\* `not m or not (m.text or m.caption)`, line 130
no_content(u) == u = None \/ ~(Truthy(u[1].text) \/ Truthy(u[1].caption))

on_text(u, resolver) ==
    /\ Len(handled) < MaxEvents
    /\ IF no_content(u)
       THEN \* line 131
            /\ handled' = Append(handled,
                   Event("text", 0, 0, "dropped", None, None, "ok",
                         has_text(u)))
            /\ UNCHANGED <<last_media_by_user, panels, panels_jsonl, story_json>>
       ELSE LET m == u[1]
                chat_id == m.chat_id
                uid == user_id_of(m)
                key == <<chat_id, uid>>
                raw == raw_of(m)
                r == extract_speaker_and_body(Some(raw))
                lm == IF key \in DOMAIN last_media_by_user
                      THEN Some(last_media_by_user[key]) ELSE None
            IN IF r.exc # ""
               THEN \* line 135 raises: the handler ends here
                    /\ handled' = Append(handled,
                           Event("text", chat_id, uid, "raised", None, lm,
                                 resolver, has_text(u)))
                    /\ UNCHANGED <<last_media_by_user, panels, panels_jsonl,
                                   story_json>>
               ELSE LET in_window ==
                            lm # None /\ now - lm[1].ts <= PANEL_GAP_SEC
                        photo_url ==
                            IF in_window /\ resolver = "ok"
                            THEN Some(secure_url(lm[1].file_id)) ELSE None
                        p == [ts |-> now, chat_id |-> chat_id, user_id |-> uid,
                              speaker |-> r.speaker,
                              text |-> IF Truthy(r.speaker) THEN r.body ELSE raw,
                              photo_url |-> photo_url]
                    IN /\ last_media_by_user' =
                              IF in_window THEN Pop(last_media_by_user, key)
                              ELSE last_media_by_user
                       /\ panels' = Append(panels, p)
                       /\ panels_jsonl' = Append(panels_jsonl, p)
                       /\ story_json' = Some(assemble_story(panels'))
                       /\ handled' = Append(handled,
                              Event("text", chat_id, uid, "panel", None, lm,
                                    resolver, has_text(u)))
    /\ UNCHANGED <<now, text_in, parsed>>

OnText == \E u \in TextUpdates, resolver \in Resolver : on_text(u, resolver)

(***************************************************************************)
(* The repeating job of line 180: assemble_story(panels) writes the        *)
(* document of line 110.                                                   *)
(***************************************************************************)
write_story ==
    /\ story_json' = Some(assemble_story(panels))
    /\ UNCHANGED <<last_media_by_user, panels, panels_jsonl, now, handled,
                   text_in, parsed>>

Next == OnPhoto \/ OnText \/ Tick \/ write_story

Spec == Init /\ [][Next]_vars

(***************************************************************************)
(* The parser on its own: every raw text over a small alphabet, and the    *)
(* examples of the specification.                                          *)
(***************************************************************************)
Chars == {"a", ":", " ", "\n", "\r"}

SlayerHello ==
    <<"S", "l", "a", "y", "e", "r", ":", "\n", "H", "e", "l", "l", "o">>
NarrationSun ==
    <<"N", "a", "r", "r", "a", "t", "i", "o", "n", "\n",
      "T", "h", "e", " ", "s", "u", "n">>
JustText == <<"J", "u", "s", "t", " ", "t", "e", "x", "t">>
\* a first line of 33 characters that ends with a colon
LongLabel == [i \in 1..33 |-> IF i = 33 THEN ":" ELSE "a"]

Texts ==
    UNION {[1..n -> Chars] : n \in 0..MaxLen}
        \cup {SlayerHello, NarrationSun, JustText, LongLabel}

InitParser ==
    /\ last_media_by_user = EmptyDict
    /\ panels = << >>
    /\ panels_jsonl = << >>
    /\ story_json = None
    /\ now = 0
    /\ handled = << >>
    /\ text_in \in {None} \cup {Some(t) : t \in Texts}
    /\ parsed = None

parse_text ==
    /\ parsed = None
    /\ parsed' = Some(extract_speaker_and_body(text_in))
    /\ UNCHANGED <<last_media_by_user, panels, panels_jsonl, story_json, now,
                   handled, text_in>>

NextParser == parse_text

SpecParser == InitParser /\ [][NextParser]_vars

(***************************************************************************)
(* assemble_story on its own: every panel list up to MaxPanels.            *)
(***************************************************************************)
PanelValues ==
    [ts : {0}, chat_id : {1}, user_id : {5},
     speaker : {None, Some(<< >>), Some(<<"S">>)},
     text : {<< >>, <<"t">>, <<"t", "\r">>},
     photo_url : {None, Some(<<"u">>)}]

PanelLists == UNION {[1..n -> PanelValues] : n \in 0..MaxPanels}

InitAssemble ==
    /\ last_media_by_user = EmptyDict
    /\ panels \in PanelLists
    /\ panels_jsonl = panels
    /\ story_json = None
    /\ now = 0
    /\ handled = << >>
    /\ text_in = None
    /\ parsed = None

NextAssemble == write_story

SpecAssemble == InitAssemble /\ [][NextAssemble]_vars

(***************************************************************************)
(* Properties of the assembled document (SpecAssemble)                     *)
(***************************************************************************)
\* The ids the specification names, written out for positions 1..9.
NodeIdFor(i) == <<"n", "o", "d", "e", "_", "0", "0", "0", DigitChar[i + 1]>>
TransitionKeyFor(i) ==
    <<"c", "a", "p", "t", "u", "r", "e", "d", "_", "s", "t", "o", "r", "y",
      ":", "g", "o", "t", "o", ":", "0", "0", "0", DigitChar[i + 1]>>

Assembled == story_json # None
Doc == story_json[1]

\* C7 (chaining): in the document assembled from n panels, every node i in
\* 1..n-1 has exactly one choice, whose key is the transition key of i+1, the
\* callbacks map sends that key to node id i+1, and the keys of the map are
\* exactly the transition keys of 2..n.
Chaining ==
    Assembled =>
        LET n == Len(panels) IN
        /\ \A i \in 1..(n - 1) :
            /\ NodeIdFor(i) \in DOMAIN Doc.nodes
            /\ Len(Doc.nodes[NodeIdFor(i)].choices) = 1
            /\ Doc.nodes[NodeIdFor(i)].choices[1].key = TransitionKeyFor(i + 1)
            /\ TransitionKeyFor(i + 1) \in DOMAIN Doc.callbacks
            /\ Doc.callbacks[TransitionKeyFor(i + 1)] = NodeIdFor(i + 1)
        /\ DOMAIN Doc.callbacks = {TransitionKeyFor(i) : i \in 2..n}

ChainingWitness ==
    /\ Assembled
    /\ Len(panels) >= 2
    /\ Doc.callbacks[TransitionKeyFor(2)] = NodeIdFor(2)
    /\ Doc.nodes[NodeIdFor(1)].choices[1].key = TransitionKeyFor(2)

\* C8 (terminal node and intro): in the document assembled from n > 0 panels
\* the nodes are node 1..n, node n and only node n has an empty choice list
\* and meta.intro is node_0001; for n = 0 the document has no nodes, no
\* callbacks and an empty intro.
TerminalAndIntro ==
    Assembled =>
        LET n == Len(panels) IN
        IF n = 0
        THEN /\ DOMAIN Doc.nodes = {}
             /\ DOMAIN Doc.callbacks = {}
             /\ Doc.meta.intro = << >>
        ELSE /\ DOMAIN Doc.nodes = {NodeIdFor(i) : i \in 1..n}
             /\ \A i \in 1..n :
                    (Doc.nodes[NodeIdFor(i)].choices = << >>) <=> (i = n)
             /\ Doc.meta.intro = NodeIdFor(1)

TerminalAndIntroWitness ==
    /\ Assembled
    /\ Len(panels) >= 2
    /\ Doc.nodes[NodeIdFor(Len(panels))].choices = << >>
    /\ Doc.nodes[NodeIdFor(1)].choices # << >>
    /\ Doc.meta.intro = NodeIdFor(1)

(***************************************************************************)
(* Properties of the speaker parser (SpecParser)                           *)
(***************************************************************************)
MaxSpeakerLen == 32
ReservedLabel == <<"n", "a", "r", "r", "a", "t", "i", "o", "n">>
Marker == <<"s", "l", "a", "y", "e", "r">>

LowerChar(c) ==
    CASE c = "S" -> "s" [] c = "N" -> "n" [] c = "J" -> "j"
      [] c = "T" -> "t" [] c = "H" -> "h" [] OTHER -> c
Lower(s) == [i \in 1..Len(s) |-> LowerChar(s[i])]

Contains(s, sub) ==
    \E i \in 0..(Len(s) - Len(sub)) : SubSeq(s, i + 1, i + Len(sub)) = sub

RECURSIVE RStripChars(_, _)
RStripChars(s, cs) ==
    IF s # << >> /\ s[Len(s)] \in cs
    THEN RStripChars(SubSeq(s, 1, Len(s) - 1), cs) ELSE s

RECURSIVE DropBlank(_)
DropBlank(lines) ==
    IF lines # << >> /\ strip(Head(lines)) = << >> THEN DropBlank(Tail(lines))
    ELSE lines

RECURSIVE JoinLines(_)
JoinLines(lines) ==
    IF lines = << >> THEN << >>
    ELSE IF Len(lines) = 1 THEN lines[1]
    ELSE lines[1] \o <<"\n">> \o JoinLines(Tail(lines))

\* The result the specification prescribes for a raw text.
SpeakerParsing(text) ==
    LET lines == DropBlank(splitlines(text)) IN
    IF lines = << >> THEN Return(None, << >>)
    ELSE LET first == strip(lines[1]) IN
         IF /\ Len(first) <= MaxSpeakerLen
            /\ \/ Lower(first) = ReservedLabel
               \/ Contains(Lower(first), Marker)
               \/ first[Len(first)] = ":"
         THEN Return(Some(RStripChars(first, {":", " "})),
                     lstrip(JoinLines(Tail(lines))))
         ELSE Return(None, text)

\* C10 (speaker parsing): for every raw text the parser does not fail and
\* returns the speaker and body the specification prescribes: the first
\* non-blank line as speaker iff it is at most 32 characters and is the
\* reserved label, contains the marker or ends with a colon, with the rest as
\* body; otherwise no speaker and the text unchanged; (none, "") when there is
\* no non-blank line.
SpeakerParsingHolds ==
    (parsed # None /\ text_in # None) =>
        /\ parsed[1].exc = ""
        /\ parsed[1] = SpeakerParsing(text_in[1])

(***************************************************************************)
(* Properties of the handlers (Spec), over the history of handled updates  *)
(***************************************************************************)
Idx == 1..Len(handled)
KeyOf(j) == <<handled[j].chat_id, handled[j].user_id>>
IsPhoto(j) == handled[j].kind = "photo" /\ handled[j].outcome = "recorded"
\* a text event with non-empty text or caption whose handler has ended
IsText(j) == handled[j].kind = "text" /\ handled[j].outcome # "dropped"

\* position in the panel store of the panel of text event j, 0 when the
\* handler appended none
PanelOf(j) ==
    IF handled[j].outcome = "panel"
    THEN Cardinality({k \in 1..j : handled[k].outcome = "panel"})
    ELSE 0
HasPanel(j) == PanelOf(j) \in 1..Len(panels)
PhotoOf(j) == panels[PanelOf(j)].photo_url

\* the photo event whose entry is pending for the key of event j when j is
\* handled: the last photo event of that key before j
PendingAt(i, j) ==
    /\ i < j /\ IsPhoto(i) /\ KeyOf(i) = KeyOf(j)
    /\ \A k \in (i + 1)..(j - 1) : ~(IsPhoto(k) /\ KeyOf(k) = KeyOf(j))
\* no text event of the key between photo event i and event j
NoTextBetween(i, j) ==
    \A k \in (i + 1)..(j - 1) : ~(IsText(k) /\ KeyOf(k) = KeyOf(j))

\* C1: once a non-empty text event of a key has been handled, no pending
\* entry set before that text event remains for the key, inside or outside
\* the correlation window.
ConsumedByText ==
    \A j \in Idx : IsText(j) =>
        \/ KeyOf(j) \notin DOMAIN last_media_by_user
        \/ \E i \in (j + 1)..Len(handled) : IsPhoto(i) /\ KeyOf(i) = KeyOf(j)

\* C3: the panel of a text event has a photo URL iff a pending entry exists
\* for its key, at most PANEL_GAP_SEC seconds passed since the entry was set,
\* and fetch and upload both succeed.
PairedIffInWindow ==
    \A j \in Idx : IsText(j) =>
        ((HasPanel(j) /\ PhotoOf(j) # None)
            <=> (/\ handled[j].lm # None
                 /\ handled[j].t - handled[j].lm[1].ts <= PANEL_GAP_SEC
                 /\ handled[j].resolver = "ok"))

\* C4: after two photo events of a key and then a text event of that key,
\* with no text event of the key in between, the entry the text event finds
\* pending holds the reference of the second photo event, so only that one
\* can be fetched; a panel of the text event carries no photo or the one of
\* the second photo event; and no panel carries the photo of the first.
LastPhotoWins ==
    \A i1, i2, j \in Idx :
        (/\ i1 < i2 /\ IsPhoto(i1) /\ KeyOf(i1) = KeyOf(j)
         /\ PendingAt(i2, j) /\ NoTextBetween(i1, j) /\ IsText(j)
         /\ handled[i1].file_id # handled[i2].file_id) =>
            /\ handled[j].lm # None
            /\ handled[j].lm[1].file_id = handled[i2].file_id[1]
            /\ handled[j].lm[1].file_id # handled[i1].file_id[1]
            /\ HasPanel(j) =>
                   PhotoOf(j) \in {None, Some(secure_url(handled[i2].file_id[1]))}
            /\ \A k \in 1..Len(panels) :
                   panels[k].photo_url # Some(secure_url(handled[i1].file_id[1]))

\* two photo events with different references and then a text event of the
\* key, inside the window with fetch and upload succeeding, have been handled
\* and the registry holds the second reference
LastPhotoWinsWitness ==
    \E i1, i2, j \in Idx :
        /\ i1 < i2 /\ i2 < j
        /\ IsPhoto(i1) /\ IsPhoto(i2) /\ IsText(j)
        /\ KeyOf(i1) = KeyOf(j) /\ KeyOf(i2) = KeyOf(j)
        /\ handled[i1].file_id # handled[i2].file_id
        /\ handled[j].t - handled[i2].t <= PANEL_GAP_SEC
        /\ handled[j].resolver = "ok"
        /\ KeyOf(j) \in DOMAIN last_media_by_user
        /\ last_media_by_user[KeyOf(j)].file_id = handled[i2].file_id[1]

\* C5: of two non-empty text events, the panel of the one handled first is at
\* an earlier position of the panel store than the panel of the other.
GlobalOrdering ==
    \A j1, j2 \in Idx :
        (j1 < j2 /\ IsText(j1) /\ IsText(j2)) =>
            /\ HasPanel(j1) /\ HasPanel(j2)
            /\ PanelOf(j1) < PanelOf(j2)

\* C6: a non-empty text event that has been handled has exactly one panel in
\* the store, no exception left its handler, and when fetch or upload fails
\* the panel has no photo.
AlwaysOnePanel ==
    \A j \in Idx : IsText(j) =>
        /\ handled[j].outcome # "raised"
        /\ HasPanel(j)
        /\ Len(panels) = Cardinality({k \in Idx : IsText(k)})
        /\ (handled[j].resolver # "ok" => PhotoOf(j) = None)

(***************************************************************************)
(* Frame properties of the handlers (Spec)                                 *)
(***************************************************************************)
\* the step handles one update, recorded as the last entry of handled'
Handles == handled' # handled /\ Len(handled') = Len(handled) + 1
Handled == handled'[Len(handled')]

\* C13: handling a text event with neither text nor caption changes nothing:
\* no panel, no log record, no document, and the registry is as before.
DroppedWithoutEffect ==
    [][(Handles /\ Handled.kind = "text" /\ ~Handled.content) =>
           UNCHANGED <<last_media_by_user, panels, panels_jsonl,
                       story_json>>]_vars

DroppedWithoutEffectWitness ==
    \E i, j \in Idx :
        /\ i < j /\ IsPhoto(i)
        /\ handled[j].kind = "text" /\ ~handled[j].content
        /\ KeyOf(i) \in DOMAIN last_media_by_user
        /\ last_media_by_user[KeyOf(i)].file_id = handled[i].file_id[1]
        /\ panels = << >> /\ panels_jsonl = << >> /\ story_json = None

\* C14: handling a photo event sets the entry of its own key to the event's
\* media reference and arrival time, leaves the entry of every other key as
\* it was, and changes neither the panels, the log nor the document.
PhotoSetsOwnKeyOnly ==
    [][(Handles /\ Handled.kind = "photo" /\ Handled.content) =>
           LET key == <<Handled.chat_id, Handled.user_id>> IN
           /\ Handled.file_id # None
           /\ DOMAIN last_media_by_user' =
                  (DOMAIN last_media_by_user) \cup {key}
           /\ last_media_by_user'[key] =
                  [ts |-> now, file_id |-> Handled.file_id[1]]
           /\ \A k \in (DOMAIN last_media_by_user) \ {key} :
                  last_media_by_user'[k] = last_media_by_user[k]
           /\ UNCHANGED <<panels, panels_jsonl, story_json>>]_vars

PhotoSetsOwnKeyOnlyWitness ==
    \E i, j \in Idx :
        /\ i < j /\ IsPhoto(i) /\ IsPhoto(j) /\ KeyOf(i) # KeyOf(j)
        /\ DOMAIN last_media_by_user = {KeyOf(i), KeyOf(j)}
        /\ last_media_by_user[KeyOf(i)] =
               [ts |-> handled[i].t, file_id |-> handled[i].file_id[1]]
        /\ last_media_by_user[KeyOf(j)] =
               [ts |-> handled[j].t, file_id |-> handled[j].file_id[1]]
        /\ handled[i].t < handled[j].t
        /\ panels = << >>

(***************************************************************************)
(* The panel of a text event and the parser (Spec)                         *)
(***************************************************************************)
\* C19: handling a text event with text or caption appends a panel whose
\* speaker and text follow the parser: the speaker and the parsed body when
\* the first line is accepted as a label, no speaker and the raw text
\* otherwise.
PanelFollowsParser ==
    [][\A u \in TextUpdates, r \in Resolver :
          (on_text(u, r) /\ u # None
               /\ (Truthy(u[1].text) \/ Truthy(u[1].caption))) =>
              LET raw == raw_of(u[1])
                  want == SpeakerParsing(raw)
              IN /\ Len(panels') = Len(panels) + 1
                 /\ panels'[Len(panels')].speaker = want.speaker
                 /\ panels'[Len(panels')].text =
                        (IF want.speaker # None THEN want.body ELSE raw)]_vars

====
